---------------------------- MODULE Spec2Model ----------------------------
(***************************************************************************)
(* Brain Bender Daily: the render-and-publish pipeline of the repository's *)
(* server variants, and the pure text helpers they use.                    *)
(*                                                                         *)
(* The repository holds several independent servers.  One behaviour of    *)
(* this model is one server process: Init picks the variant and the       *)
(* process then serves up to MaxRuns pipeline executions, which may       *)
(* overlap.  An action is the code a handler runs between two awaits (or  *)
(* event callbacks); the outcome of the external call that ended the      *)
(* await is drawn with \E.                                                 *)
(*                                                                         *)
(*   "index.js"   src/index.js 1-255          handleRequest, spawnSync    *)
(*   "server.js"  src/server.js               image only, fixed paths     *)
(*   "part_002"   src/unnamed/part_002 1-159  spawn + close, no upload    *)
(*   "part_003"   src/unnamed/part_003 1-239  two downloads, spawnSync    *)
(*   "part_003b"  src/unnamed/part_003 241-398 spawn, video streamed back *)
(*   "part_004"   src/unnamed/part_004 1-255  createAndUpload, fixed paths*)
(*   "part_004b"  src/unnamed/part_004 256-457 createAndUpload, captions  *)
(*                                                                         *)
(* The OAuth callback, the riddle selector and the text helpers have       *)
(* specifications of their own over the same variables.                    *)
(***************************************************************************)
EXTENDS Integers, Sequences, FiniteSets, TLC

VARIABLES
  variant,    \* which server this process is
  clock,      \* Date.now(), read by the timestamp-suffixed variants
  files,      \* the disk: path -> content, for the paths that exist
  crashed,    \* the process died of an uncaught exception
  pc,         \* per run: the await the handler is parked on
  trigger,    \* per run: "make" (HTTP request) or "cron" (scheduled)
  riddle,     \* per run: index of the selected riddle, 0 before selection
  paths,      \* per run: temporary paths the run has computed
  created,    \* per run: temporary paths the run has written
  ext,        \* per run: external calls started and not yet finished
  completed,  \* per run: stages whose output is complete
  failed,     \* per run: the stage that failed, "none" otherwise
  encErr,     \* per run: what the encoder wrote to stderr, "" if nothing
  upFile,     \* per run: content handed to the uploader
  upId,       \* per run: id the uploader returned, "" before
  uploads,    \* every upload the platform accepted
  resp,       \* per run: the HTTP response sent
  loop,       \* the run whose spawnSync blocks the event loop, 0 if free
  assets,     \* the local assets that are present on this deployment
  riddles,    \* the content of data/riddles.json
  random,     \* riddle selector: Math.random() is random / RandomSteps
  count,      \* riddle selector: the length of the list
  index,      \* riddle selector: the computed index, -1 before
  credentials,\* OAuth: the credentials set on the process-wide client
  callback,   \* OAuth: per callback request, its code, position, answer
  exchanges,  \* OAuth: the codes handed to the token endpoint so far
  text,       \* text helpers: the caller-supplied text
  helper,     \* text helpers: which helper is applied
  limit,      \* text helpers: maxChars / maxWidth of the wrapping
  out,        \* text helpers: the helper's result
  applied,    \* text helpers: whether the helper has run
  frame,      \* captions: the number of the frame being drawn, -1 before
  shown,      \* captions: the captions drawn on that frame
  served,     \* /file/:name: the request's parameter, the path read, the answer
  download    \* downloadToFile: its two streams and its promise

envVars == <<assets, riddles>>
pipeVars == <<variant, clock, files, crashed, pc, trigger, riddle, paths,
              created, ext, completed, failed, encErr, upFile, upId,
              uploads, resp, loop, envVars>>
textVars == <<text, helper, limit, out, applied>>
pickVars == <<random, count, index>>
oauthVars == <<credentials, callback, exchanges>>
capVars == <<frame, shown>>
ioVars == <<served, download>>
sideVars == <<textVars, pickVars, oauthVars, capVars, ioVars>>
vars == <<pipeVars, sideVars>>

(************************** bounds of the model ****************************)
MaxRuns == 2
MaxClock == 3
MaxLen == 3
MaxTextLen == 5
MaxLimit == 3
RandomSteps == 16
MaxCount == 6
MaxCallbacks == 2
MaxSeconds == 20
MaxParamLen == 3
MaxChunks == 4

Runs == 1..MaxRuns

(****************************** data ***************************************)
\* data/riddles.json: a list of { question, answer } records
RiddleList ==
  << [question |-> "q1", answer |-> "a1"],
     [question |-> "q2", answer |-> "a2"] >>

\* ids the hosting platform may assign, and texts the encoder may print
VideoIds == {"idA", "idB"}
Diagnostics == {"diagA", "diagB"}

Variants == {"index.js", "server.js", "part_002", "part_003", "part_003b",
             "part_004", "part_004b"}

\* local assets: the assets directory, a background image in it, the font
AllAssets == {"dir", "background", "font"}
\* the servers that select the riddle from data/riddles.json; the others
\* have their script in the handler
ListVariants == {"index.js", "server.js", "part_003", "part_004", "part_004b"}

\* the servers that read a local asset; the others draw with a font that
\* is built into their image library
ReadsAssets == {"index.js", "part_002", "part_003", "part_003b", "part_004b"}

\* a background image exists only inside an existing directory
AssetSets == {a \in SUBSET AllAssets : "background" \in a => "dir" \in a}

\* a path: a fixed name (ts = 0) or a name suffixed with Date.now()
FixedPath(name) == [name |-> name, ts |-> 0]
StampedPath(name, ts) == [name |-> name, ts |-> ts]

\* file contents: which riddle the audio and the picture were made for
Audio(i) == [audio |-> i, visual |-> 0]
Image(i) == [audio |-> 0, visual |-> i]
Video(a, v) == [audio |-> a, visual |-> v]
Missing == [audio |-> -1, visual |-> -1]

NoResponse == [status |-> 0, body |-> [none |-> <<>>]]

(***************************** the disk ************************************)
Exists(f, p) == p \in DOMAIN f
WriteFile(f, p, c) == [q \in (DOMAIN f) \cup {p} |-> IF q = p THEN c ELSE f[q]]
\* fs.unlinkSync; the caller decides what a missing file means
Unlink(f, p) == [q \in (DOMAIN f) \ {p} |-> f[q]]

RECURSIVE UnlinkAll(_, _)
UnlinkAll(f, ps) ==
  IF ps = <<>> THEN f ELSE UnlinkAll(Unlink(f, Head(ps)), Tail(ps))

(************************* per-run bookkeeping *****************************)
Set(fn, r, v) == [fn EXCEPT ![r] = v]

\* res.json(body) / res.status(500).json(body); a scheduled run only logs
Send(r, status, body) ==
  resp' = IF trigger[r] = "make"
          THEN Set(resp, r, [status |-> status, body |-> body])
          ELSE resp

PipeInit(vs, as, rs) ==
  /\ variant \in vs
  /\ assets \in as
  /\ riddles \in rs
  /\ loop = 0
  /\ clock = 1
  /\ files = [q \in {} |-> Missing]
  /\ crashed = FALSE
  /\ pc = [r \in Runs |-> "idle"]
  /\ trigger = [r \in Runs |-> "make"]
  /\ riddle = [r \in Runs |-> 0]
  /\ paths = [r \in Runs |-> {}]
  /\ created = [r \in Runs |-> {}]
  /\ ext = [r \in Runs |-> {}]
  /\ completed = [r \in Runs |-> {}]
  /\ failed = [r \in Runs |-> "none"]
  /\ encErr = [r \in Runs |-> ""]
  /\ upFile = [r \in Runs |-> Missing]
  /\ upId = [r \in Runs |-> ""]
  /\ uploads = {}
  /\ resp = [r \in Runs |-> NoResponse]

\* callback requests of the OAuth flow
Callbacks == 1..MaxCallbacks
NoCallback == [code |-> "", pc |-> "idle", status |-> 0, tokens |-> ""]

\* no OAuth callback has been received
OAuthIdle ==
  /\ credentials = "refresh_token"
  /\ callback = [k \in Callbacks |-> NoCallback]
  /\ exchanges = << >>

\* the text helpers are not part of the pipeline's state
TextIdle ==
  /\ text = << >>
  /\ helper = "none"
  /\ limit = 0
  /\ out = << >>
  /\ applied = FALSE

\* the riddle selector is not part of the pipeline's state
PickIdle ==
  /\ random = 0
  /\ count = 0
  /\ index = -1

\* the encoder is not drawing
CapIdle ==
  /\ frame = -1
  /\ shown = {}

\* no /file request has been received, no download is under way
NoRequest == [param |-> << >>, status |-> 0, path |-> << >>]
NoDownload == [total |-> 0, received |-> 0, written |-> 0, body |-> "none",
               file |-> "none", promise |-> "none", died |-> FALSE]
IoIdle ==
  /\ served = NoRequest
  /\ download = NoDownload

\* a deployment with every asset in place; data/riddles.json holds the
\* riddles or an empty list
Init ==
  /\ PipeInit(Variants, {AllAssets}, {RiddleList, << >>})
  /\ variant \notin ListVariants => riddles = RiddleList
  /\ TextIdle /\ PickIdle /\ OAuthIdle /\ CapIdle /\ IoIdle


(***************************************************************************)
(* Shared pieces of the handlers.                                          *)
(***************************************************************************)
\* Math.floor(x): the greatest integer that is not above num / den
floor(num, den) == num \div den

\* a selector that rounds to the nearest integer
getRandomRiddle_index_round(k, length) ==
  floor(2 * k * length + RandomSteps, 2 * RandomSteps)

\* Math.floor(Math.random() * length), with Math.random() = k / RandomSteps
getRandomRiddle_index(k, length) == floor(k * length, RandomSteps)

\* the positions of list (counted from 1) that the selector can return; on
\* an empty list it returns position 1, where there is nothing (undefined)
RandomIndex(list) ==
  {getRandomRiddle_index(k, Len(list)) + 1 : k \in 0..(RandomSteps - 1)}

\* an upload whose requestBody asks for an unlisted video
videos_insert_unlisted(r, id) ==
  [run |-> r, id |-> id, video |-> upFile[r], privacy |-> "unlisted"]

\* youtube.videos.insert({ requestBody: { status: { privacyStatus:
\* 'private' } }, media: { body: createReadStream(videoPath) } }): the
\* upload the platform accepts, under the id it assigns
videos_insert(r, id) ==
  [run |-> r, id |-> id, video |-> upFile[r], privacy |-> "private"]

\* the event loop can run a callback: the process is alive and no spawnSync
\* holds the thread
Running == ~crashed /\ loop = 0

\* runs are interchangeable: run r+1 starts only once run r has started
MayStart(r) ==
  /\ Running
  /\ pc[r] = "idle"
  /\ \A q \in Runs : q < r => pc[q] # "idle"

\* the handler's catch block: res.status(500).json({ error: err.message })
Catch(r, stage, message) ==
  /\ failed' = Set(failed, r, stage)
  /\ Send(r, 500, [error |-> message])
  /\ ext' = Set(ext, r, {})
  /\ pc' = Set(pc, r, "done")

\* the same catch block, reached in the step that decides the trigger t
CatchAs(r, t, stage, message) ==
  /\ failed' = Set(failed, r, stage)
  /\ resp' = IF t = "make"
             THEN Set(resp, r, [status |-> 500, body |-> [error |-> message]])
             ELSE resp
  /\ ext' = Set(ext, r, {})
  /\ pc' = Set(pc, r, "done")

\* riddles[0] of an empty list is undefined; reading .question of it throws
UndefinedRiddle == <<"Cannot read properties of undefined (reading 'question')">>

(***************************************************************************)
(* part_004 lines 1-255: createAndUpload, used by /make and by cron.       *)
(* Temporary files have fixed names and are removed after a successful     *)
(* upload only.                                                            *)
(***************************************************************************)
voicePath == FixedPath("voice.mp3")
imagePath == FixedPath("temp.png")
videoPath == FixedPath("output.mp4")

\* createAndUpload up to the await inside generateVoice (axios.get)
createAndUpload_start(r) ==
  /\ variant = "part_004"
  /\ MayStart(r)
  /\ \E t \in {"make", "cron"} :
       /\ trigger' = Set(trigger, r, t)
       /\ IF riddles = << >>
          THEN /\ CatchAs(r, t, "riddle", UndefinedRiddle)
               /\ UNCHANGED <<riddle, paths>>
          ELSE /\ \E i \in RandomIndex(riddles) : riddle' = Set(riddle, r, i)
               /\ paths' = Set(paths, r, {imagePath})
               /\ ext' = Set(ext, r, {"tts"})
               /\ pc' = Set(pc, r, "voice")
               /\ UNCHANGED <<failed, resp>>
  /\ UNCHANGED <<variant, clock, files, crashed, created, completed,
                 encErr, upFile, upId, uploads, sideVars, envVars, loop>>

\* a createAndUpload that does not await generateImage before the encoder
createAndUpload_voiceDone_noAwait(r) ==
  /\ variant = "part_004" /\ Running /\ pc[r] = "voice"
  /\ files' = WriteFile(files, voicePath, Audio(riddle[r]))
  /\ paths' = Set(paths, r, paths[r] \cup {voicePath, videoPath})
  /\ created' = Set(created, r, created[r] \cup {voicePath})
  /\ completed' = Set(completed, r, completed[r] \cup {"voice"})
  /\ ext' = Set(ext, r, {"image", "encode"})
  /\ pc' = Set(pc, r, "encode")
  /\ UNCHANGED <<variant, clock, crashed, trigger, riddle, failed, encErr,
                 upFile, upId, uploads, resp, sideVars, envVars, loop>>

\* axios.get settles; generateVoice writes voice.mp3; generateImage is
\* started and awaited (loadFont, writeAsync)
createAndUpload_voiceDone(r) ==
  /\ variant = "part_004" /\ Running /\ pc[r] = "voice"
  /\ \/ /\ files' = WriteFile(files, voicePath, Audio(riddle[r]))
        /\ paths' = Set(paths, r, paths[r] \cup {voicePath, videoPath})
        /\ created' = Set(created, r, created[r] \cup {voicePath})
        /\ completed' = Set(completed, r, completed[r] \cup {"voice"})
        /\ ext' = Set(ext, r, {"image"})
        /\ pc' = Set(pc, r, "image")
        /\ UNCHANGED <<failed, resp>>
     \/ /\ Catch(r, "tts", <<"Request failed">>)
        /\ UNCHANGED <<files, paths, created, completed>>
  /\ UNCHANGED <<variant, clock, crashed, trigger, riddle, encErr, upFile,
                 upId, uploads, sideVars, envVars, loop>>

\* image.writeAsync settles; generateVideo starts ffmpeg with execFile
createAndUpload_imageDone(r) ==
  /\ variant = "part_004" /\ Running /\ pc[r] = "image"
  /\ \/ /\ files' = WriteFile(files, imagePath, Image(riddle[r]))
        /\ created' = Set(created, r, created[r] \cup {imagePath})
        /\ completed' = Set(completed, r, completed[r] \cup {"image"})
        /\ ext' = Set(ext, r, {"encode"})
        /\ pc' = Set(pc, r, "encode")
        /\ UNCHANGED <<failed, resp>>
     \/ /\ Catch(r, "image", <<"write failed">>)
        /\ UNCHANGED <<files, created, completed>>
  /\ UNCHANGED <<variant, clock, crashed, trigger, riddle, paths, encErr,
                 upFile, upId, uploads, sideVars, envVars, loop>>

\* a generateVideo without '-y': ffmpeg keeps an output.mp4 that is there
createAndUpload_encoderExit_keepsOutput(r) ==
  /\ variant = "part_004" /\ Running /\ pc[r] = "encode"
  /\ \/ /\ Exists(files, voicePath) /\ Exists(files, imagePath)
        /\ LET video == IF Exists(files, videoPath) THEN files[videoPath]
                        ELSE Video(files[voicePath].audio, files[imagePath].visual)
           IN /\ files' = WriteFile(files, videoPath, video)
              /\ upFile' = Set(upFile, r, video)
        /\ created' = Set(created, r, created[r] \cup {videoPath})
        /\ completed' = Set(completed, r, completed[r] \cup {"encode"})
        /\ ext' = Set(ext, r, {"upload"})
        /\ pc' = Set(pc, r, "upload")
        /\ UNCHANGED <<failed, encErr, resp>>
     \/ \E d \in Diagnostics :
          /\ encErr' = Set(encErr, r, d)
          /\ Catch(r, "encode", <<"Command failed: ", "ffmpeg", d>>)
          /\ UNCHANGED <<files, upFile, created, completed>>
  /\ UNCHANGED <<variant, clock, crashed, trigger, riddle, paths, upId,
                 uploads, sideVars, envVars, loop>>

\* the execFile callback: err rejects (message "Command failed: <cmd>\n" +
\* stderr), otherwise uploadVideo opens output.mp4 and starts the upload
createAndUpload_encoderExit(r) ==
  /\ variant = "part_004" /\ Running /\ pc[r] = "encode"
  /\ \/ /\ Exists(files, voicePath) /\ Exists(files, imagePath)
        /\ LET video == Video(files[voicePath].audio, files[imagePath].visual)
           IN /\ files' = WriteFile(files, videoPath, video)
              /\ upFile' = Set(upFile, r, video)
        /\ created' = Set(created, r, created[r] \cup {videoPath})
        /\ completed' = Set(completed, r, completed[r] \cup {"encode"})
        /\ ext' = Set(ext, r, {"upload"})
        /\ pc' = Set(pc, r, "upload")
        /\ UNCHANGED <<failed, encErr, resp>>
     \/ \E d \in Diagnostics :
          /\ encErr' = Set(encErr, r, d)
          /\ Catch(r, "encode", <<"Command failed: ", "ffmpeg", d>>)
          /\ UNCHANGED <<files, upFile, created, completed>>
  /\ UNCHANGED <<variant, clock, crashed, trigger, riddle, paths, upId,
                 uploads, sideVars, envVars, loop>>

\* a scheduled path with its own copy of the logic, which keeps the files
createAndUpload_uploadDone_cronKeepsFiles(r) ==
  /\ variant = "part_004" /\ Running /\ pc[r] = "upload"
  /\ \/ \E id \in VideoIds :
          /\ upId' = Set(upId, r, id)
          /\ uploads' = uploads \cup {videos_insert(r, id)}
          /\ files' = IF trigger[r] = "cron" THEN files
                      ELSE UnlinkAll(files, <<imagePath, voicePath, videoPath>>)
          /\ Send(r, 200, [question |-> <<riddles[riddle[r]].question>>,
                           videoId |-> <<id>>])
          /\ ext' = Set(ext, r, {})
          /\ pc' = Set(pc, r, "done")
          /\ UNCHANGED failed
     \/ /\ Catch(r, "upload", <<"upload failed">>)
        /\ UNCHANGED <<files, upId, uploads>>
  /\ UNCHANGED <<variant, clock, crashed, trigger, riddle, paths, created,
                 completed, encErr, upFile, sideVars, envVars, loop>>

\* youtube.videos.insert settles; on success the three unlinkSync calls,
\* each in its own try/catch, then the result { question, videoId }
createAndUpload_uploadDone(r) ==
  /\ variant = "part_004" /\ Running /\ pc[r] = "upload"
  /\ \/ \E id \in VideoIds :
          /\ upId' = Set(upId, r, id)
          /\ uploads' = uploads \cup
               {videos_insert(r, id)}
          /\ files' = UnlinkAll(files, <<imagePath, voicePath, videoPath>>)
          /\ Send(r, 200, [question |-> <<riddles[riddle[r]].question>>,
                           videoId |-> <<id>>])
          /\ ext' = Set(ext, r, {})
          /\ pc' = Set(pc, r, "done")
          /\ UNCHANGED failed
     \/ /\ Catch(r, "upload", <<"upload failed">>)
        /\ UNCHANGED <<files, upId, uploads>>
  /\ UNCHANGED <<variant, clock, crashed, trigger, riddle, paths, created,
                 completed, encErr, upFile, sideVars, envVars, loop>>

(***************************************************************************)
(* index.js lines 1-255: handleRequest, used by /make and by cron.         *)
(* Temporary files are suffixed with Date.now(); the encoder is run with   *)
(* spawnSync inside a try/finally that removes both files.                 *)
(***************************************************************************)
\* a run that has yet to read Date.now() for its file names: at the start
\* of the request, or (index.js) when the speech download settles
ReadsClock(r) ==
  \/ pc[r] = "idle"
  \/ variant = "index.js" /\ pc[r] = "speech"

\* the wall clock moves on between two callbacks of the event loop; once
\* nobody is left to read it, its value is of no consequence
Tick ==
  /\ Running
  /\ variant \in {"index.js", "part_002", "part_003", "part_003b"}
  /\ \E r \in Runs : ReadsClock(r)
  /\ clock < MaxClock
  /\ clock' = clock + 1
  /\ UNCHANGED <<variant, files, crashed, pc, trigger, riddle, paths, created,
                 ext, completed, failed, encErr, upFile, upId, uploads, resp,
                 sideVars, envVars, loop>>

\* if (fs.existsSync(p)) fs.unlinkSync(p), for each p of ps
UnlinkExisting(f, ps) == [q \in (DOMAIN f) \ ps |-> f[q]]

\* what spawnSync reports when ffmpeg does not exit with 0: the exit status
\* (null when the binary could not be started) and the text on stderr
SpawnSyncFailures ==
  {[status |-> "1", stderr |-> d] : d \in Diagnostics}
    \cup {[status |-> "null", stderr |-> ""]}

\* createVideo's failure: new Error(`ffmpeg failed with code ${status}`);
\* stdio is 'inherit', so stderr is not captured
createVideo_error(result) == <<"ffmpeg failed with code ", result.status>>

\* a handleRequest that narrates an undefined riddle instead of throwing
handleRequest_start_lenient(r) ==
  /\ variant = "index.js"
  /\ MayStart(r)
  /\ \E t \in {"make", "cron"} : trigger' = Set(trigger, r, t)
  /\ \E i \in RandomIndex(riddles) : riddle' = Set(riddle, r, i)
  /\ ext' = Set(ext, r, {"tts"})
  /\ pc' = Set(pc, r, "speech")
  /\ UNCHANGED <<variant, clock, files, crashed, paths, created, completed,
                 failed, resp, encErr, upFile, upId, uploads, sideVars,
                 envVars, loop>>

\* handleRequest up to the await inside generateSpeech (fetch, buffer)
handleRequest_start(r) ==
  /\ variant = "index.js"
  /\ MayStart(r)
  /\ \E t \in {"make", "cron"} :
       /\ trigger' = Set(trigger, r, t)
       /\ IF riddles = << >>
          THEN /\ CatchAs(r, t, "riddle", UndefinedRiddle)
               /\ UNCHANGED riddle
          ELSE /\ \E i \in RandomIndex(riddles) : riddle' = Set(riddle, r, i)
               /\ ext' = Set(ext, r, {"tts"})
               /\ pc' = Set(pc, r, "speech")
               /\ UNCHANGED <<failed, resp>>
  /\ UNCHANGED <<variant, clock, files, crashed, paths, created, completed,
                 encErr, upFile, upId, uploads, sideVars, envVars, loop>>

\* the paths of a run of handleRequest
audioPathOf(r) == CHOOSE p \in paths[r] : p.name = "speech"
videoPathOf(r) == CHOOSE p \in paths[r] : p.name = "video"

\* the download settles; generateSpeech writes speech_<now>.mp3 and returns;
\* getRandomBackground reads the assets directory (readdirSync throws when
\* it is absent, before the try); createVideo then starts ffmpeg with
\* spawnSync, which holds the thread until ffmpeg exits
handleRequest_speechDone(r) ==
  /\ variant = "index.js" /\ Running /\ pc[r] = "speech"
  /\ LET audio == StampedPath("speech", clock)
         video == StampedPath("video", clock)
     IN \/ /\ files' = WriteFile(files, audio, Audio(riddle[r]))
           /\ created' = Set(created, r, {audio})
           /\ completed' = Set(completed, r, {"voice"})
           /\ IF "dir" \in assets
              THEN /\ paths' = Set(paths, r, {audio, video})
                   /\ ext' = Set(ext, r, {"encode"})
                   /\ pc' = Set(pc, r, "encode")
                   /\ loop' = r
                   /\ UNCHANGED <<failed, resp>>
              ELSE /\ paths' = Set(paths, r, {audio})
                   /\ Catch(r, "background",
                            <<"ENOENT: no such file or directory, scandir">>)
                   /\ UNCHANGED loop
        \/ /\ Catch(r, "tts", <<"Failed to fetch TTS audio">>)
           /\ UNCHANGED <<files, paths, created, completed, loop>>
  /\ UNCHANGED <<variant, clock, crashed, trigger, riddle, encErr, upFile,
                 upId, uploads, sideVars, envVars>>

\* spawnSync returns, time having passed: status 0 (ffmpeg found its
\* background and its font) and uploadToYouTube starts, or createVideo
\* throws and the finally block removes both files
handleRequest_encoderExit(r) ==
  /\ variant = "index.js" /\ ~crashed /\ loop = r /\ pc[r] = "encode"
  /\ clock < MaxClock
  /\ clock' = clock + 1
  /\ loop' = 0
  /\ LET audio == audioPathOf(r)
         video == videoPathOf(r)
         encoded == Video(files[audio].audio, riddle[r])
     IN \/ /\ {"background", "font"} \subseteq assets
           /\ files' = WriteFile(files, video, encoded)
           /\ created' = Set(created, r, created[r] \cup {video})
           /\ completed' = Set(completed, r, completed[r] \cup {"encode"})
           /\ upFile' = Set(upFile, r, encoded)
           /\ ext' = Set(ext, r, {"upload"})
           /\ pc' = Set(pc, r, "upload")
           /\ UNCHANGED <<failed, encErr, resp>>
        \/ \E result \in SpawnSyncFailures :
             /\ files' = UnlinkExisting(files, {audio, video})
             /\ encErr' = Set(encErr, r, result.stderr)
             /\ Catch(r, "encode", createVideo_error(result))
             /\ UNCHANGED <<created, completed, upFile>>
  /\ UNCHANGED <<variant, crashed, trigger, riddle, paths, upId, uploads,
                 sideVars, envVars>>

\* youtube.videos.insert settles; the finally block removes both files and
\* /make answers { question, answer, videoId } or the catch block answers 500
handleRequest_uploadDone(r) ==
  /\ variant = "index.js" /\ Running /\ pc[r] = "upload"
  /\ files' = UnlinkExisting(files, paths[r])
  /\ \/ \E id \in VideoIds :
          /\ upId' = Set(upId, r, id)
          /\ uploads' = uploads \cup
               {videos_insert(r, id)}
          /\ Send(r, 200, [question |-> <<riddles[riddle[r]].question>>,
                           answer |-> <<riddles[riddle[r]].answer>>,
                           videoId |-> <<id>>])
          /\ ext' = Set(ext, r, {})
          /\ pc' = Set(pc, r, "done")
          /\ UNCHANGED failed
     \/ /\ Catch(r, "upload", <<"upload failed">>)
        /\ UNCHANGED <<upId, uploads>>
  /\ UNCHANGED <<variant, clock, crashed, trigger, riddle, paths, created,
                 completed, encErr, upFile, sideVars, envVars, loop>>

(***************************************************************************)
(* server.js: /make renders an image, encodes it and uploads the video.    *)
(* Fixed file names; unlinkSync after a successful upload, inside the try. *)
(***************************************************************************)
imgPath == FixedPath("temp_image.png")
tempVideoPath == FixedPath("temp_video.mp4")

\* /make up to the await inside generateImage (loadFont, writeAsync)
server_make_start(r) ==
  /\ variant = "server.js"
  /\ MayStart(r)
  /\ IF riddles = << >>
     THEN /\ Catch(r, "riddle", UndefinedRiddle)
          /\ UNCHANGED <<riddle, paths>>
     ELSE /\ \E i \in RandomIndex(riddles) : riddle' = Set(riddle, r, i)
          /\ paths' = Set(paths, r, {imgPath, tempVideoPath})
          /\ ext' = Set(ext, r, {"image"})
          /\ pc' = Set(pc, r, "image")
          /\ UNCHANGED <<failed, resp>>
  /\ UNCHANGED <<variant, clock, files, crashed, trigger, created, completed,
                 encErr, upFile, upId, uploads, sideVars, envVars, loop>>

\* image.writeAsync settles; generateVideo starts fluent-ffmpeg
server_make_imageDone(r) ==
  /\ variant = "server.js" /\ Running /\ pc[r] = "image"
  /\ \/ /\ files' = WriteFile(files, imgPath, Image(riddle[r]))
        /\ created' = Set(created, r, created[r] \cup {imgPath})
        /\ completed' = Set(completed, r, completed[r] \cup {"image"})
        /\ ext' = Set(ext, r, {"encode"})
        /\ pc' = Set(pc, r, "encode")
        /\ UNCHANGED <<failed, resp>>
     \/ /\ Catch(r, "image", <<"write failed">>)
        /\ UNCHANGED <<files, created, completed>>
  /\ UNCHANGED <<variant, clock, crashed, trigger, riddle, paths, encErr,
                 upFile, upId, uploads, sideVars, envVars, loop>>

\* fluent-ffmpeg's 'end' resolves and uploadVideo starts; 'error' rejects
\* with "ffmpeg exited with code 1: " + the end of stderr
server_make_encoderEnd(r) ==
  /\ variant = "server.js" /\ Running /\ pc[r] = "encode"
  /\ \/ /\ Exists(files, imgPath)
        /\ LET video == Video(0, files[imgPath].visual)
           IN /\ files' = WriteFile(files, tempVideoPath, video)
              /\ upFile' = Set(upFile, r, video)
        /\ created' = Set(created, r, created[r] \cup {tempVideoPath})
        /\ completed' = Set(completed, r, completed[r] \cup {"encode"})
        /\ ext' = Set(ext, r, {"upload"})
        /\ pc' = Set(pc, r, "upload")
        /\ UNCHANGED <<failed, encErr, resp>>
     \/ \E d \in Diagnostics :
          /\ encErr' = Set(encErr, r, d)
          /\ Catch(r, "encode", <<"ffmpeg exited with code 1: ", d>>)
          /\ UNCHANGED <<files, upFile, created, completed>>
  /\ UNCHANGED <<variant, clock, crashed, trigger, riddle, paths, upId,
                 uploads, sideVars, envVars, loop>>

\* youtube.videos.insert settles; fs.unlinkSync(imgPath) and
\* fs.unlinkSync(videoPath) throw into the catch block when the file is
\* gone; otherwise /make answers { message, videoId }
server_make_uploadDone(r) ==
  /\ variant = "server.js" /\ Running /\ pc[r] = "upload"
  /\ \/ \E id \in VideoIds :
          /\ upId' = Set(upId, r, id)
          /\ uploads' = uploads \cup
               {videos_insert(r, id)}
          /\ IF ~Exists(files, imgPath)
             THEN /\ files' = files
                  /\ Catch(r, "cleanup", <<"ENOENT: no such file or directory">>)
             ELSE IF ~Exists(files, tempVideoPath)
             THEN /\ files' = Unlink(files, imgPath)
                  /\ Catch(r, "cleanup", <<"ENOENT: no such file or directory">>)
             ELSE /\ files' = Unlink(Unlink(files, imgPath), tempVideoPath)
                  /\ Send(r, 200, [message |-> <<"Video uploaded successfully">>,
                                   videoId |-> <<id>>])
                  /\ ext' = Set(ext, r, {})
                  /\ pc' = Set(pc, r, "done")
                  /\ UNCHANGED failed
     \/ /\ Catch(r, "upload", <<"upload failed">>)
        /\ UNCHANGED <<files, upId, uploads>>
  /\ UNCHANGED <<variant, clock, crashed, trigger, riddle, paths, created,
                 completed, encErr, upFile, sideVars, envVars, loop>>

(***************************************************************************)
(* part_002 lines 1-159: /make downloads the narration, starts ffmpeg with *)
(* spawn and answers from the child's 'close' event.  Nothing is uploaded  *)
(* and the files stay in tmp, where /file/:name serves them.               *)
(***************************************************************************)
\* the script of this variant is fixed in the handler: one riddle
FixedRiddle == 1

\* /make up to the await on downloadToFile; ts = Date.now()
part2_make_start(r) ==
  /\ variant = "part_002"
  /\ MayStart(r)
  /\ IF "background" \notin assets
     THEN /\ Catch(r, "asset", <<"Missing assets/background3.png">>)
          /\ UNCHANGED <<riddle, paths>>
     ELSE IF "font" \notin assets
     THEN /\ Catch(r, "asset", <<"Missing assets/BebasNeue-Regular.ttf">>)
          /\ UNCHANGED <<riddle, paths>>
     ELSE /\ riddle' = Set(riddle, r, FixedRiddle)
          /\ paths' = Set(paths, r, {StampedPath("speech", clock),
                                     StampedPath("out", clock)})
          /\ ext' = Set(ext, r, {"tts"})
          /\ pc' = Set(pc, r, "voice")
          /\ UNCHANGED <<failed, resp>>
  /\ UNCHANGED <<variant, clock, files, crashed, trigger, created, completed,
                 encErr, upFile, upId, uploads, sideVars, envVars, loop>>

speechOf(r) == CHOOSE p \in paths[r] : p.name = "speech"
outOf(r) == CHOOSE p \in paths[r] : p.name = "out"

\* downloadToFile settles ('finish' of the write stream, or a throw); then
\* spawn(ffmpegPath, args) with listeners for stderr 'data' and 'close'
\* only.  A binary that cannot be started is reported by the child's
\* 'error' event, which has no listener: the process dies of the uncaught
\* exception and the request is never answered.
part2_make_downloadDone(r) ==
  /\ variant = "part_002" /\ pc[r] = "voice" /\ Running
  /\ \/ /\ files' = WriteFile(files, speechOf(r), Audio(riddle[r]))
        /\ created' = Set(created, r, created[r] \cup {speechOf(r)})
        /\ completed' = Set(completed, r, completed[r] \cup {"voice"})
        /\ \/ /\ ext' = Set(ext, r, {"encode"})
              /\ pc' = Set(pc, r, "encode")
              /\ UNCHANGED <<crashed, failed>>
           \/ /\ crashed' = TRUE
              /\ failed' = Set(failed, r, "encode")
              /\ ext' = Set(ext, r, {})
              /\ pc' = Set(pc, r, "encode")
        /\ UNCHANGED resp
     \/ /\ Catch(r, "tts", <<"Download failed">>)
        /\ UNCHANGED <<files, created, completed, crashed>>
  /\ UNCHANGED <<variant, clock, trigger, riddle, paths, encErr, upFile,
                 upId, uploads, sideVars, envVars, loop>>

\* child.on("close"): 500 { error: "ffmpeg failed", ARGS, STDERR } when the
\* exit code is not 0 or the output is missing, else 200 { ok, file, hint }
part2_make_close(r) ==
  /\ variant = "part_002" /\ pc[r] = "encode" /\ Running
  /\ \/ /\ Exists(files, speechOf(r))
        /\ files' = WriteFile(files, outOf(r),
                              Video(files[speechOf(r)].audio, riddle[r]))
        /\ created' = Set(created, r, created[r] \cup {outOf(r)})
        /\ completed' = Set(completed, r, completed[r] \cup {"encode"})
        /\ Send(r, 200, [ok |-> <<"true">>, file |-> <<"/file/", "out">>,
                         hint |-> <<"Open the file URL to preview/download.">>])
        /\ UNCHANGED <<failed, encErr>>
     \/ \E d \in Diagnostics :
          /\ encErr' = Set(encErr, r, d)
          /\ failed' = Set(failed, r, "encode")
          /\ Send(r, 500, [error |-> <<"ffmpeg failed">>, ARGS |-> <<"args">>,
                           STDERR |-> <<d>>])
          /\ UNCHANGED <<files, created, completed>>
  /\ ext' = Set(ext, r, {})
  /\ pc' = Set(pc, r, "done")
  /\ UNCHANGED <<variant, clock, crashed, trigger, riddle, paths, upFile,
                 upId, uploads, sideVars, envVars, loop>>

(***************************************************************************)
(* part_003 lines 1-239: /make builds the narration from two downloads and *)
(* two ffmpeg runs, encodes and uploads.  Every ffmpeg run is a spawnSync. *)
(* Paths are suffixed with Date.now(); only the video and the narration    *)
(* are removed, after a successful upload.                                 *)
(***************************************************************************)
pathOf(r, name) == CHOOSE p \in paths[r] : p.name = name

\* ffmpeg -f concat of the question's and the answer's audio: the narration
\* of a riddle, or of none when the two files belong to different riddles
concat(q, a) == IF q = a THEN q ELSE Len(RiddleList) + 1

\* /make up to the first await of buildVoiceTrack (downloadToFile of the
\* question); loadRiddle's result is destructured at once
part3_make_start(r) ==
  /\ variant = "part_003"
  /\ MayStart(r)
  /\ IF riddles = << >>
     THEN /\ Catch(r, "riddle", UndefinedRiddle)
          /\ UNCHANGED <<riddle, paths>>
     ELSE /\ \E i \in RandomIndex(riddles) : riddle' = Set(riddle, r, i)
          /\ paths' = Set(paths, r, {StampedPath(n, clock) :
                                      n \in {"q", "a", "pad", "speech"}})
          /\ ext' = Set(ext, r, {"tts"})
          /\ pc' = Set(pc, r, "voiceQ")
          /\ UNCHANGED <<failed, resp>>
  /\ UNCHANGED <<variant, clock, files, crashed, trigger, created, completed,
                 encErr, upFile, upId, uploads, sideVars, envVars, loop>>

\* a buildVoiceTrack that goes on to the answer after a failed download
part3_make_questionDone_goOn(r) ==
  /\ variant = "part_003" /\ Running /\ pc[r] = "voiceQ"
  /\ \/ /\ files' = WriteFile(files, pathOf(r, "q"), Audio(riddle[r]))
        /\ created' = Set(created, r, created[r] \cup {pathOf(r, "q")})
        /\ UNCHANGED failed
     \/ /\ failed' = Set(failed, r, "tts")
        /\ UNCHANGED <<files, created>>
  /\ ext' = Set(ext, r, {"tts"})
  /\ pc' = Set(pc, r, "voiceA")
  /\ UNCHANGED <<variant, clock, crashed, trigger, riddle, paths, completed,
                 encErr, upFile, upId, uploads, resp, sideVars, envVars, loop>>

\* the question's download settles; the answer's download starts
part3_make_questionDone(r) ==
  /\ variant = "part_003" /\ Running /\ pc[r] = "voiceQ"
  /\ \/ /\ files' = WriteFile(files, pathOf(r, "q"), Audio(riddle[r]))
        /\ created' = Set(created, r, created[r] \cup {pathOf(r, "q")})
        /\ ext' = Set(ext, r, {"tts"})
        /\ pc' = Set(pc, r, "voiceA")
        /\ UNCHANGED <<failed, resp>>
     \/ /\ Catch(r, "tts", <<"download failed: ", "500">>)
        /\ UNCHANGED <<files, created>>
  /\ UNCHANGED <<variant, clock, crashed, trigger, riddle, paths, completed,
                 encErr, upFile, upId, uploads, sideVars, envVars, loop>>

\* the answer's download settles; spawnSync of the silence track starts,
\* followed without an await by the spawnSync of the concatenation
part3_make_answerDone(r) ==
  /\ variant = "part_003" /\ Running /\ pc[r] = "voiceA"
  /\ \/ /\ files' = WriteFile(files, pathOf(r, "a"), Audio(riddle[r]))
        /\ created' = Set(created, r, created[r] \cup {pathOf(r, "a")})
        /\ ext' = Set(ext, r, {"mix"})
        /\ pc' = Set(pc, r, "mix")
        /\ loop' = r
        /\ UNCHANGED <<failed, resp>>
     \/ /\ Catch(r, "tts", <<"download failed: ", "500">>)
        /\ UNCHANGED <<files, created, loop>>
  /\ UNCHANGED <<variant, clock, crashed, trigger, riddle, paths, completed,
                 encErr, upFile, upId, uploads, sideVars, envVars>>

\* both audio ffmpeg runs have returned: the narration is written and
\* createVideo starts its spawnSync in the same turn of the event loop, or
\* buildVoiceTrack throws "ffmpeg(silence) failed" / "ffmpeg(concat) failed"
part3_make_mixExit(r) ==
  /\ variant = "part_003" /\ ~crashed /\ loop = r /\ pc[r] = "mix"
  /\ LET pad == pathOf(r, "pad")
         list == StampedPath("list", clock)
         speech == pathOf(r, "speech")
         outMp4 == StampedPath("out", clock)
     IN \/ /\ Exists(files, pathOf(r, "q")) /\ Exists(files, pathOf(r, "a"))
           /\ files' = WriteFile(WriteFile(WriteFile(files, pad, Audio(0)),
                                           list, Audio(0)),
                                 speech, Audio(concat(files[pathOf(r, "q")].audio,
                                                      files[pathOf(r, "a")].audio)))
           /\ paths' = Set(paths, r, paths[r] \cup {list, outMp4})
           /\ created' = Set(created, r, created[r] \cup {pad, list, speech})
           /\ completed' = Set(completed, r, completed[r] \cup {"voice"})
           /\ ext' = Set(ext, r, {"encode"})
           /\ pc' = Set(pc, r, "encode")
           /\ UNCHANGED <<failed, encErr, resp, loop>>
        \/ \E d \in Diagnostics :
             /\ Catch(r, "tts", <<"ffmpeg(silence) failed", "ARGS: ", "STDERR: ", d>>)
             /\ loop' = 0
             /\ UNCHANGED <<files, paths, created, completed, encErr>>
  /\ UNCHANGED <<variant, clock, crashed, trigger, riddle, upFile, upId,
                 uploads, sideVars, envVars>>

\* the encoder's spawnSync returns, time having passed: status 0 (the font
\* is there; a missing background falls back to a solid colour) and
\* uploadToYouTube starts, or createVideo throws with ARGS, STDERR, STDOUT
part3_make_encoderExit(r) ==
  /\ variant = "part_003" /\ ~crashed /\ loop = r /\ pc[r] = "encode"
  /\ clock < MaxClock
  /\ clock' = clock + 1
  /\ loop' = 0
  /\ LET encoded == Video(files[pathOf(r, "speech")].audio, riddle[r])
     IN \/ /\ "font" \in assets
           /\ files' = WriteFile(files, pathOf(r, "out"), encoded)
           /\ created' = Set(created, r, created[r] \cup {pathOf(r, "out")})
           /\ completed' = Set(completed, r, completed[r] \cup {"encode"})
           /\ upFile' = Set(upFile, r, encoded)
           /\ ext' = Set(ext, r, {"upload"})
           /\ pc' = Set(pc, r, "upload")
           /\ UNCHANGED <<failed, encErr, resp>>
        \/ \E d \in Diagnostics :
             /\ encErr' = Set(encErr, r, d)
             /\ Catch(r, "encode", <<"ffmpeg failed", "ARGS: ", "STDERR: ", d,
                                     "STDOUT: ", "(empty)">>)
             /\ UNCHANGED <<files, created, completed, upFile>>
  /\ UNCHANGED <<variant, crashed, trigger, riddle, paths, upId, uploads,
                 sideVars, envVars>>

\* try { fs.unlinkSync(video); fs.unlinkSync(speech); } catch (_) {}
part3_cleanup(f, video, speech) ==
  IF ~Exists(f, video) THEN f
  ELSE IF ~Exists(f, speech) THEN Unlink(f, video)
  ELSE Unlink(Unlink(f, video), speech)

\* youtube.videos.insert settles; best-effort cleanup of the video and the
\* narration, then { question, answer, videoId }
part3_make_uploadDone(r) ==
  /\ variant = "part_003" /\ Running /\ pc[r] = "upload"
  /\ \/ \E id \in VideoIds :
          /\ upId' = Set(upId, r, id)
          /\ uploads' = uploads \cup {videos_insert(r, id)}
          /\ files' = part3_cleanup(files, pathOf(r, "out"), pathOf(r, "speech"))
          /\ Send(r, 200, [question |-> <<riddles[riddle[r]].question>>,
                           answer |-> <<riddles[riddle[r]].answer>>,
                           videoId |-> <<id>>])
          /\ ext' = Set(ext, r, {})
          /\ pc' = Set(pc, r, "done")
          /\ UNCHANGED failed
     \/ /\ Catch(r, "upload", <<"upload failed">>)
        /\ UNCHANGED <<files, upId, uploads>>
  /\ UNCHANGED <<variant, clock, crashed, trigger, riddle, paths, created,
                 completed, encErr, upFile, sideVars, envVars, loop>>

(***************************************************************************)
(* part_003 lines 241-398: /make checks its assets, downloads the          *)
(* narration, awaits ffmpeg (spawn, 'close' event) and streams the video   *)
(* back; both files are removed when the stream closes.  No upload.        *)
(***************************************************************************)
\* /make up to the await on downloadToFile; a missing asset is answered
\* with 500 at once
part3b_make_start(r) ==
  /\ variant = "part_003b"
  /\ MayStart(r)
  /\ IF "background" \notin assets
     THEN /\ Catch(r, "asset", <<"Missing assets/background3.png">>)
          /\ UNCHANGED <<riddle, paths>>
     ELSE IF "font" \notin assets
     THEN /\ Catch(r, "asset", <<"Missing assets/BebasNeue-Regular.ttf">>)
          /\ UNCHANGED <<riddle, paths>>
     ELSE /\ riddle' = Set(riddle, r, FixedRiddle)
          /\ paths' = Set(paths, r, {StampedPath("speech", clock),
                                     StampedPath("out", clock)})
          /\ ext' = Set(ext, r, {"tts"})
          /\ pc' = Set(pc, r, "voice")
          /\ UNCHANGED <<failed, resp>>
  /\ UNCHANGED <<variant, clock, files, crashed, trigger, created, completed,
                 encErr, upFile, upId, uploads, sideVars, envVars, loop>>

\* downloadToFile settles; spawn(ffmpegBin, args) inside the awaited
\* promise, which listens to 'close' only: a binary that cannot be started
\* raises the child's 'error' event, which nobody handles
part3b_make_downloadDone(r) ==
  /\ variant = "part_003b" /\ Running /\ pc[r] = "voice"
  /\ \/ /\ files' = WriteFile(files, speechOf(r), Audio(riddle[r]))
        /\ created' = Set(created, r, created[r] \cup {speechOf(r)})
        /\ completed' = Set(completed, r, completed[r] \cup {"voice"})
        /\ \/ /\ ext' = Set(ext, r, {"encode"})
              /\ pc' = Set(pc, r, "encode")
              /\ UNCHANGED <<crashed, failed>>
           \/ /\ crashed' = TRUE
              /\ failed' = Set(failed, r, "encode")
              /\ ext' = Set(ext, r, {})
              /\ pc' = Set(pc, r, "encode")
        /\ UNCHANGED resp
     \/ /\ Catch(r, "tts", <<"Download failed: ", "500">>)
        /\ UNCHANGED <<files, created, completed, crashed>>
  /\ UNCHANGED <<variant, clock, trigger, riddle, paths, encErr, upFile,
                 upId, uploads, sideVars, envVars, loop>>

\* p.on("close"): code 0 resolves and the video is piped into the response;
\* any other code rejects with `ffmpeg exited ${code}\n${stderr}`
part3b_make_close(r) ==
  /\ variant = "part_003b" /\ Running /\ pc[r] = "encode"
  /\ \/ /\ Exists(files, speechOf(r))
        /\ files' = WriteFile(files, outOf(r),
                              Video(files[speechOf(r)].audio, riddle[r]))
        /\ created' = Set(created, r, created[r] \cup {outOf(r)})
        /\ completed' = Set(completed, r, completed[r] \cup {"encode"})
        /\ Send(r, 200, [video |-> <<"video/mp4">>])
        /\ ext' = Set(ext, r, {})
        /\ pc' = Set(pc, r, "stream")
        /\ UNCHANGED <<failed, encErr>>
     \/ \E d \in Diagnostics :
          /\ encErr' = Set(encErr, r, d)
          /\ Catch(r, "encode", <<"ffmpeg exited ", "1", d>>)
          /\ UNCHANGED <<files, created, completed>>
  /\ UNCHANGED <<variant, clock, crashed, trigger, riddle, paths, upFile,
                 upId, uploads, sideVars, envVars, loop>>

\* the 'close' of the piped stream: each file is unlinked in its own try
part3b_make_streamClose(r) ==
  /\ variant = "part_003b" /\ Running /\ pc[r] = "stream"
  /\ files' = UnlinkAll(files, <<speechOf(r), outOf(r)>>)
  /\ pc' = Set(pc, r, "done")
  /\ UNCHANGED <<variant, clock, crashed, trigger, riddle, paths, created,
                 ext, completed, failed, encErr, upFile, upId, uploads, resp,
                 sideVars, envVars, loop>>

(***************************************************************************)
(* part_004 lines 256-457: createAndUpload of the dynamic generator, used  *)
(* by /make and by cron: narration, ffmpeg (execFile), upload.  Fixed      *)
(* names, removed after a successful upload only.                          *)
(***************************************************************************)
dynamicVideoPath == FixedPath("video.mp4")

\* createAndUpload up to the await inside generateVoice; an undefined
\* riddle makes generateVoice reject before any request is made
createAndUpload2_start(r) ==
  /\ variant = "part_004b"
  /\ MayStart(r)
  /\ \E t \in {"make", "cron"} :
       /\ trigger' = Set(trigger, r, t)
       /\ IF riddles = << >>
          THEN /\ CatchAs(r, t, "riddle", UndefinedRiddle)
               /\ UNCHANGED riddle
          ELSE /\ \E i \in RandomIndex(riddles) : riddle' = Set(riddle, r, i)
               /\ ext' = Set(ext, r, {"tts"})
               /\ pc' = Set(pc, r, "voice")
               /\ UNCHANGED <<failed, resp>>
  /\ UNCHANGED <<variant, clock, files, crashed, paths, created, completed,
                 encErr, upFile, upId, uploads, sideVars, envVars, loop>>

\* axios.get settles; generateVoice writes voice.mp3; generateVideo starts
\* ffmpeg with execFile
createAndUpload2_voiceDone(r) ==
  /\ variant = "part_004b" /\ Running /\ pc[r] = "voice"
  /\ \/ /\ files' = WriteFile(files, voicePath, Audio(riddle[r]))
        /\ paths' = Set(paths, r, {voicePath, dynamicVideoPath})
        /\ created' = Set(created, r, created[r] \cup {voicePath})
        /\ completed' = Set(completed, r, completed[r] \cup {"voice"})
        /\ ext' = Set(ext, r, {"encode"})
        /\ pc' = Set(pc, r, "encode")
        /\ UNCHANGED <<failed, resp>>
     \/ /\ Catch(r, "tts", <<"Request failed">>)
        /\ UNCHANGED <<files, paths, created, completed>>
  /\ UNCHANGED <<variant, clock, crashed, trigger, riddle, encErr, upFile,
                 upId, uploads, sideVars, envVars, loop>>

\* the execFile callback: the captions are drawn from the riddle held in
\* memory, the sound is read from voice.mp3; a missing background is
\* replaced by a plain colour, a missing font makes ffmpeg fail
createAndUpload2_encoderExit(r) ==
  /\ variant = "part_004b" /\ Running /\ pc[r] = "encode"
  /\ \/ /\ Exists(files, voicePath) /\ "font" \in assets
        /\ LET video == Video(files[voicePath].audio, riddle[r])
           IN /\ files' = WriteFile(files, dynamicVideoPath, video)
              /\ upFile' = Set(upFile, r, video)
        /\ created' = Set(created, r, created[r] \cup {dynamicVideoPath})
        /\ completed' = Set(completed, r, completed[r] \cup {"encode"})
        /\ ext' = Set(ext, r, {"upload"})
        /\ pc' = Set(pc, r, "upload")
        /\ UNCHANGED <<failed, encErr, resp>>
     \/ \E d \in Diagnostics :
          /\ encErr' = Set(encErr, r, d)
          /\ Catch(r, "encode", <<"Command failed: ", "ffmpeg", d>>)
          /\ UNCHANGED <<files, upFile, created, completed>>
  /\ UNCHANGED <<variant, clock, crashed, trigger, riddle, paths, upId,
                 uploads, sideVars, envVars, loop>>

\* youtube.videos.insert settles; on success two unlinkSync calls, each in
\* its own try/catch, then the result { question, videoId }
createAndUpload2_uploadDone(r) ==
  /\ variant = "part_004b" /\ Running /\ pc[r] = "upload"
  /\ \/ \E id \in VideoIds :
          /\ upId' = Set(upId, r, id)
          /\ uploads' = uploads \cup {videos_insert(r, id)}
          /\ files' = UnlinkAll(files, <<voicePath, dynamicVideoPath>>)
          /\ Send(r, 200, [question |-> <<riddles[riddle[r]].question>>,
                           videoId |-> <<id>>])
          /\ ext' = Set(ext, r, {})
          /\ pc' = Set(pc, r, "done")
          /\ UNCHANGED failed
     \/ /\ Catch(r, "upload", <<"upload failed">>)
        /\ UNCHANGED <<files, upId, uploads>>
  /\ UNCHANGED <<variant, clock, crashed, trigger, riddle, paths, created,
                 completed, encErr, upFile, sideVars, envVars, loop>>

PipeNext ==
  \/ Tick
  \/ \E r \in Runs :
       \/ createAndUpload_start(r)
       \/ createAndUpload_voiceDone(r)
       \/ createAndUpload_imageDone(r)
       \/ createAndUpload_encoderExit(r)
       \/ createAndUpload_uploadDone(r)
       \/ handleRequest_start(r)
       \/ handleRequest_speechDone(r)
       \/ handleRequest_encoderExit(r)
       \/ handleRequest_uploadDone(r)
       \/ server_make_start(r)
       \/ server_make_imageDone(r)
       \/ server_make_encoderEnd(r)
       \/ server_make_uploadDone(r)
       \/ part2_make_start(r)
       \/ part2_make_downloadDone(r)
       \/ part2_make_close(r)
       \/ part3_make_start(r)
       \/ part3_make_questionDone(r)
       \/ part3_make_answerDone(r)
       \/ part3_make_mixExit(r)
       \/ part3_make_encoderExit(r)
       \/ part3_make_uploadDone(r)
       \/ part3b_make_start(r)
       \/ part3b_make_downloadDone(r)
       \/ part3b_make_close(r)
       \/ part3b_make_streamClose(r)
       \/ createAndUpload2_start(r)
       \/ createAndUpload2_voiceDone(r)
       \/ createAndUpload2_encoderExit(r)
       \/ createAndUpload2_uploadDone(r)

Spec == Init /\ [][PipeNext]_vars

\* any deployment: assets may be absent and the riddle list may be empty
EnvInit ==
  /\ PipeInit(Variants, AssetSets, {RiddleList, << >>})
  /\ variant \notin ReadsAssets => assets = AllAssets
  /\ variant \notin ListVariants => riddles = RiddleList
  /\ TextIdle /\ PickIdle /\ OAuthIdle /\ CapIdle /\ IoIdle

SpecEnv == EnvInit /\ [][PipeNext]_vars

(***************************************************************************)
(* GET /oauth2callback of the servers that have the route: index.js,       *)
(* server.js, the OAuth-only server of part_002 (lines 160-209) and both   *)
(* servers of part_004.  One behaviour serves up to MaxCallbacks requests. *)
(***************************************************************************)
OAuthVariants == {"index.js", "server.js", "part_002b", "part_004", "part_004b"}

\* req.query.code: absent (or empty), or a code the token endpoint will
\* accept or refuse
Codes == {"", "codeA", "codeB"}

\* what oauth2Client.getToken resolves with
Tokens == {"tokensA", "tokensB"}

\* the servers whose callback calls oauth2Client.setCredentials(tokens);
\* the part_004 servers only log the refresh token
SetsCredentials == {"index.js", "server.js", "part_002b"}

OAuthInit ==
  /\ PipeInit(OAuthVariants, {AllAssets}, {RiddleList})
  /\ TextIdle /\ PickIdle /\ CapIdle /\ IoIdle
  /\ credentials \in IF variant = "part_002b" THEN {"none"}
                     ELSE {"none", "refresh_token"}
  /\ callback = [k \in Callbacks |-> NoCallback]
  /\ exchanges = << >>

\* a handler that hands whatever it finds in the query to getToken
oauth2callback_noCheck(k) ==
  /\ callback[k].pc = "idle"
  /\ \A j \in Callbacks : j < k => callback[j].pc # "idle"
  /\ \E code \in Codes :
       /\ callback' = [callback EXCEPT ![k] = [code |-> code, pc |-> "token", status |-> 0,
                                             tokens |-> ""]]
       /\ exchanges' = Append(exchanges, [callback |-> k, code |-> code])
  /\ UNCHANGED <<pipeVars, ioVars, capVars, textVars, pickVars, credentials>>

\* the handler up to its await: if (!code) return res.status(400).send(...),
\* otherwise oauth2Client.getToken(code) is called and awaited
oauth2callback(k) ==
  /\ callback[k].pc = "idle"
  /\ \A j \in Callbacks : j < k => callback[j].pc # "idle"
  /\ \E code \in Codes :
       IF code = ""
       THEN /\ callback' = [callback EXCEPT ![k] = [code |-> code, pc |-> "done", status |-> 400,
                                                  tokens |-> ""]]
            /\ UNCHANGED exchanges
       ELSE /\ callback' = [callback EXCEPT ![k] = [code |-> code, pc |-> "token", status |-> 0,
                                             tokens |-> ""]]
            /\ exchanges' = Append(exchanges, [callback |-> k, code |-> code])
  /\ UNCHANGED <<pipeVars, ioVars, capVars, textVars, pickVars, credentials>>

\* getToken settles: the tokens are installed (where the server does so)
\* and the answer is 200, or the catch block answers 500
oauth2callback_tokenDone(k) ==
  /\ callback[k].pc = "token"
  /\ \/ \E tokens \in Tokens :
          /\ credentials' = IF variant \in SetsCredentials THEN tokens ELSE credentials
          /\ callback' = [callback EXCEPT ![k].pc = "done", ![k].status = 200,
                                          ![k].tokens = tokens]
     \/ /\ callback' = [callback EXCEPT ![k].pc = "done", ![k].status = 500]
        /\ UNCHANGED credentials
  /\ UNCHANGED <<pipeVars, ioVars, capVars, textVars, pickVars, exchanges>>

OAuthNext == \E k \in Callbacks : oauth2callback(k) \/ oauth2callback_tokenDone(k)

SpecOAuth == OAuthInit /\ [][OAuthNext]_vars

(***************************************************************************)
(* The riddle selector on its own: getRandomRiddle of index.js, loadRiddle *)
(* of part_003 and the same expression in the other servers, applied to a  *)
(* list of count riddles with Math.random() = random / RandomSteps.        *)
(***************************************************************************)
PickInit ==
  /\ PipeInit({"none"}, {AllAssets}, {RiddleList})
  /\ TextIdle /\ OAuthIdle /\ CapIdle /\ IoIdle
  /\ random \in 0..(RandomSteps - 1)
  /\ count \in 0..MaxCount
  /\ index = -1

\* riddles[Math.floor(Math.random() * riddles.length)]
getRandomRiddle ==
  /\ index = -1
  /\ index' = getRandomRiddle_index(random, count)
  /\ UNCHANGED <<pipeVars, ioVars, capVars, textVars, oauthVars, random, count>>

SpecPick == PickInit /\ [][getRandomRiddle]_vars

(***************************************************************************)
(* The caption-escaping helpers.  A text is a sequence of characters; the  *)
(* helpers are chains of String.prototype.replace with a global pattern    *)
(* of one character.                                                       *)
(***************************************************************************)
SQ == "'"
COLON == ":"
BS == "\\"
COMMA == ","
EscChars == {SQ, COLON, BS, COMMA, "a"}

\* all sequences over alphabet of length at most n
RECURSIVE TextsUpTo(_, _)
TextsUpTo(alphabet, n) ==
  IF n = 0 THEN {<< >>}
  ELSE LET shorter == TextsUpTo(alphabet, n - 1)
       IN shorter \cup {<<c>> \o t : c \in alphabet, t \in {u \in shorter : Len(u) = n - 1}}

\* s.replace(/ch/g, rep)
RECURSIVE ReplaceAll(_, _, _)
ReplaceAll(s, ch, rep) ==
  IF s = << >> THEN << >>
  ELSE (IF Head(s) = ch THEN rep ELSE <<Head(s)>>) \o ReplaceAll(Tail(s), ch, rep)

\* index.js createVideo: text.replace(/'/g, "\\'").replace(/:/g, '\\:')
esc(t) == ReplaceAll(ReplaceAll(t, SQ, <<BS, SQ>>), COLON, <<BS, COLON>>)

\* part_004 generateVideo: riddle.question.replace(/'/g, "\\'")
generateVideo_escape(t) == ReplaceAll(t, SQ, <<BS, SQ>>)

\* part_003 escText: backslashes doubled, colons \: , quotes \\'
escText(t) ==
  ReplaceAll(ReplaceAll(ReplaceAll(t, BS, <<BS, BS>>),
                        COLON, <<BS, COLON>>),
             SQ, <<BS, BS, SQ>>)

\* part_002 dt: backslashes doubled, quotes \\' , colons \\:
dt(t) ==
  ReplaceAll(ReplaceAll(ReplaceAll(t, BS, <<BS, BS>>),
                        SQ, <<BS, BS, SQ>>),
             COLON, <<BS, BS, COLON>>)

\* part_003 drawText: the same chain as dt
drawText(t) ==
  ReplaceAll(ReplaceAll(ReplaceAll(t, BS, <<BS, BS>>),
                        SQ, <<BS, BS, SQ>>),
             COLON, <<BS, BS, COLON>>)

EscHelpers == {"esc", "generateVideo", "escText", "dt", "drawText"}

Escape(h, t) ==
  CASE h = "esc" -> esc(t)
    [] h = "generateVideo" -> generateVideo_escape(t)
    [] h = "escText" -> escText(t)
    [] h = "dt" -> dt(t)
    [] h = "drawText" -> drawText(t)

EscInit ==
  /\ PipeInit({"none"}, {AllAssets}, {RiddleList})
  /\ PickIdle /\ OAuthIdle /\ CapIdle /\ IoIdle
  /\ text \in TextsUpTo(EscChars, MaxLen)
  /\ helper \in EscHelpers
  /\ limit = 0
  /\ out = << >>
  /\ applied = FALSE

\* the helper is called on the text and its result goes into text='...'
ApplyEscape ==
  /\ ~applied
  /\ out' = Escape(helper, text)
  /\ applied' = TRUE
  /\ UNCHANGED <<pipeVars, ioVars, capVars, pickVars, oauthVars, text, helper, limit>>

SpecEsc == EscInit /\ [][ApplyEscape]_vars

(***************************************************************************)
(* Word wrapping: wrapText of part_004 (characters against maxChars) and   *)
(* the wrap loop of server.js generateImage (measured width against        *)
(* maxWidth).  A line is a sequence of characters.                         *)
(***************************************************************************)
SPACE == " "
WrapChars == {"a", "b", SPACE}

\* text.split(' '): a new word at every space
RECURSIVE SplitOnSpace(_, _)
SplitOnSpace(t, word) ==
  IF t = << >> THEN <<word>>
  ELSE IF Head(t) = SPACE THEN <<word>> \o SplitOnSpace(Tail(t), << >>)
  ELSE SplitOnSpace(Tail(t), Append(word, Head(t)))

\* text.split(/\s+/): a new word at every run of whitespace
RECURSIVE SplitOnSpaces(_, _)
SplitOnSpaces(t, word) ==
  IF t = << >> THEN <<word>>
  ELSE IF Head(t) = SPACE
       THEN IF Len(t) > 1 /\ t[2] = SPACE
            THEN SplitOnSpaces(Tail(t), word)
            ELSE <<word>> \o SplitOnSpaces(Tail(t), << >>)
  ELSE SplitOnSpaces(Tail(t), Append(word, Head(t)))

\* String.prototype.trim
RECURSIVE TrimLeft(_)
TrimLeft(t) == IF t # << >> /\ Head(t) = SPACE THEN TrimLeft(Tail(t)) ELSE t
RECURSIVE TrimRight(_)
TrimRight(t) ==
  IF t # << >> /\ t[Len(t)] = SPACE THEN TrimRight(SubSeq(t, 1, Len(t) - 1)) ELSE t
Trim(t) == TrimRight(TrimLeft(t))

\* the forEach of wrapText over the remaining words
RECURSIVE wrapText_loop(_, _, _, _)
wrapText_loop(words, maxChars, lines, current) ==
  IF words = << >>
  THEN IF Trim(current) # << >> THEN Append(lines, Trim(current)) ELSE lines
  ELSE LET word == Head(words)
           over == Len(current \o word) > maxChars
           lines1 == IF over THEN Append(lines, Trim(current)) ELSE lines
           current1 == IF over THEN << >> ELSE current
       IN wrapText_loop(Tail(words), maxChars, lines1, current1 \o word \o <<SPACE>>)

wrapText(t, maxChars) == wrapText_loop(SplitOnSpaces(t, << >>), maxChars, << >>, << >>)

\* Jimp.measureText(font, line): the sum of the glyphs' advances; every
\* glyph of the model's font is one unit wide
measureText(line) == Len(line)

\* the for loop of generateImage over the remaining words
RECURSIVE generateImage_loop(_, _, _, _)
generateImage_loop(words, maxWidth, lines, currentLine) ==
  IF words = << >>
  THEN IF currentLine # << >> THEN Append(lines, currentLine) ELSE lines
  ELSE LET word == Head(words)
           testLine == IF currentLine # << >>
                       THEN currentLine \o <<SPACE>> \o word ELSE word
       IN IF measureText(testLine) > maxWidth /\ currentLine # << >>
          THEN generateImage_loop(Tail(words), maxWidth,
                                  Append(lines, currentLine), word)
          ELSE generateImage_loop(Tail(words), maxWidth, lines, testLine)

generateImage_wrap(t, maxWidth) ==
  generateImage_loop(SplitOnSpace(t, << >>), maxWidth, << >>, << >>)

WrapHelpers == {"wrapText", "generateImage"}

WrapInit ==
  /\ PipeInit({"none"}, {AllAssets}, {RiddleList})
  /\ PickIdle /\ OAuthIdle /\ CapIdle /\ IoIdle
  /\ text \in TextsUpTo(WrapChars, MaxTextLen)
  /\ helper \in WrapHelpers
  /\ limit \in 1..MaxLimit
  /\ out = << >>
  /\ applied = FALSE

\* the helper wraps the text into lines
ApplyWrap ==
  /\ ~applied
  /\ out' = IF helper = "wrapText" THEN wrapText(text, limit)
            ELSE generateImage_wrap(text, limit)
  /\ applied' = TRUE
  /\ UNCHANGED <<pipeVars, ioVars, capVars, pickVars, oauthVars, text, helper, limit>>

SpecWrap == WrapInit /\ [][ApplyWrap]_vars

(***************************************************************************)
(* The timed captions.  Every caption is one drawtext filter with          *)
(* enable='between(t,start,end)'; ffmpeg evaluates the expression on every *)
(* frame, t being the frame's time in seconds.  One behaviour is one       *)
(* encoder run drawing frame after frame; it ends when the narration ends  *)
(* (-shortest) or at the duration given with -t.                           *)
(***************************************************************************)
\* the servers that draw captions; "index.js_b" is the server of index.js
\* lines 256-367
CaptionVariants == {"index.js", "index.js_b", "part_002", "part_003",
                    "part_003b", "part_004b"}

\* a drawtext filter: x is (w-text_w)/2 everywhere, y is in hundredths of
\* the height, start and end are in seconds
Caption(kind, txt, y, start, end) ==
  [kind |-> kind, text |-> txt, x |-> "(w-text_w)/2", y |-> y,
   start |-> start, end |-> end]

\* the filter list of createVideo (index.js 108-127)
createVideo_filter ==
  { Caption("title", "Brain Bender Daily", 30, 0, 2),
    Caption("title", "Today's Riddle", 40, 0, 2),
    Caption("question", "question", 35, 2, 7),
    Caption("hint", "Think about it...", 45, 2, 7),
    Caption("countdown", "Answer in 3", 50, 7, 8),
    Caption("countdown", "Answer in 2", 50, 8, 9),
    Caption("countdown", "Answer in 1", 50, 9, 10),
    Caption("answer", "Answer: answer", 40, 10, 14),
    Caption("hint", "Did you get it right?", 50, 10, 14),
    Caption("cta", "Follow for daily brain benders!", 45, 14, 16) }

\* the filter list built with dt / drawText (index.js 340-350, part_002
\* 100-110, part_003 142-151 and 337-346): the same windows and positions
make_filters ==
  { Caption("title", "Today's Riddle", 15, 0, 2),
    Caption("question", "question", 40, 0, 6),
    Caption("countdown", "Answer in 3", 78, 2, 3),
    Caption("countdown", "Answer in 2", 78, 3, 4),
    Caption("countdown", "Answer in 1", 78, 4, 5),
    Caption("answer", "answer", 40, 5, 11),
    Caption("cta", "Follow @BrainBenderDaily", 92, 0, 11) }

\* the filter list of generateVideo (part_004 343-354)
generateVideo_filter ==
  { Caption("question", "question", 30, 0, 12),
    Caption("countdown", "3", 55, 8, 9),
    Caption("countdown", "2", 55, 9, 10),
    Caption("countdown", "1", 55, 10, 11),
    Caption("answer", "Answer: answer", 60, 13, 18),
    Caption("cta", "Follow for daily brain benders!", 90, 18, 20) }

Captions ==
  CASE variant = "index.js" -> createVideo_filter
    [] variant = "part_004b" -> generateVideo_filter
    [] OTHER -> make_filters

\* frames per second: '-r 30', or the 25 of a looped image without -r
FrameRate == IF variant \in {"index.js", "part_004b"} THEN 25 ELSE 30

\* '-t': the duration in seconds at which the encoder stops; part_004 gives
\* none, its video lasts as long as the narration
Duration ==
  CASE variant = "index.js" -> 16
    [] variant = "part_004b" -> MaxSeconds
    [] OTHER -> 11

\* between(t, min, max) on frame n, whose time is n / FrameRate: 1 when
\* min <= t <= max
between(n, min, max) == min * FrameRate <= n /\ n <= max * FrameRate

CapInit ==
  /\ PipeInit(CaptionVariants, {AllAssets}, {RiddleList})
  /\ TextIdle /\ PickIdle /\ OAuthIdle /\ CapIdle /\ IoIdle

\* the encoder draws the next frame: every drawtext whose enable expression
\* is 1 at the frame's time draws its text
drawtext ==
  /\ frame + 1 < Duration * FrameRate
  /\ frame + 1 < MaxSeconds * FrameRate
  /\ frame' = frame + 1
  /\ shown' = {c \in Captions : between(frame + 1, c.start, c.end)}
  /\ UNCHANGED <<pipeVars, ioVars, textVars, pickVars, oauthVars>>

SpecCap == CapInit /\ [][drawtext]_vars

(***************************************************************************)
(* GET /file/:name of part_002 (lines 23-28).  A text is a sequence of     *)
(* tokens; a path is a sequence of segments, each segment a text.  Express *)
(* matches :name against one segment of the raw URL and hands the handler  *)
(* its decodeURIComponent.                                                 *)
(***************************************************************************)
UP == ".."
SEP == "/"
ENCODED_SEP == "%2F"
ParamTokens == {UP, ENCODED_SEP, "out.mp4", "index.js"}

\* the raw values of :name: non-empty, without a literal separator
Params ==
  {t \in TextsUpTo(ParamTokens, MaxParamLen) : t # << >>}

\* decodeURIComponent on these tokens: %2F becomes the separator
decodeURIComponent(t) ==
  [i \in DOMAIN t |-> IF t[i] = ENCODED_SEP THEN SEP ELSE t[i]]

\* t.split('/'), seg being the segment read so far
RECURSIVE SplitPath(_, _)
SplitPath(t, seg) ==
  IF t = << >> THEN <<seg>>
  ELSE IF Head(t) = SEP THEN <<seg>> \o SplitPath(Tail(t), << >>)
  ELSE SplitPath(Tail(t), Append(seg, Head(t)))

\* path.normalize of an absolute path: empty segments are dropped and '..'
\* removes the segment before it (the root has no parent)
RECURSIVE normalize(_, _)
normalize(done, segs) ==
  IF segs = << >> THEN done
  ELSE IF Head(segs) = << >> THEN normalize(done, Tail(segs))
  ELSE IF Head(segs) = <<UP>>
       THEN normalize(IF done = << >> THEN done
                      ELSE SubSeq(done, 1, Len(done) - 1), Tail(segs))
  ELSE normalize(Append(done, Head(segs)), Tail(segs))

\* path.join(base, name) for an absolute, normalized base
path_join(base, name) == normalize(base, SplitPath(name, << >>))

\* ROOT = process.cwd(); TMP = path.join(ROOT, "tmp")
ROOT == << <<"app">> >>
TMP == path_join(ROOT, <<"tmp">>)

\* the disk: a generated video in tmp, the server's source next to tmp
RegularFiles == {Append(TMP, <<"out.mp4">>), Append(ROOT, <<"index.js">>)}
Directories == {<< >>, ROOT, TMP}
existsSync(p) == p \in RegularFiles \cup Directories

FileInit ==
  /\ PipeInit({"part_002"}, {AllAssets}, {RiddleList})
  /\ TextIdle /\ PickIdle /\ OAuthIdle /\ CapIdle
  /\ served \in {[NoRequest EXCEPT !.param = t] : t \in Params}
  /\ download = NoDownload

\* the handler: 404 when nothing exists at the joined path, otherwise
\* res.sendFile(file), which sends a regular file and passes a directory
\* on to the default 404
file_name ==
  /\ served.status = 0
  /\ LET file == path_join(TMP, decodeURIComponent(served.param))
     IN served' = [served EXCEPT !.path = file,
                                 !.status = IF file \in RegularFiles
                                            THEN 200 ELSE 404]
  /\ UNCHANGED <<pipeVars, capVars, textVars, pickVars, oauthVars, download>>

SpecFile == FileInit /\ [][file_name]_vars

(***************************************************************************)
(* The streaming downloadToFile (part_002 31-41, index.js 279-289,         *)
(* part_003 267-277): fetch, then res.body.pipe(file) inside a promise     *)
(* that rejects on the body's 'error' and resolves on the file's 'finish'. *)
(* One behaviour is one call; an action is one stream event.               *)
(***************************************************************************)
DownloadInit ==
  /\ PipeInit({"index.js_b", "part_002", "part_003b"}, {AllAssets}, {RiddleList})
  /\ TextIdle /\ PickIdle /\ OAuthIdle /\ CapIdle
  /\ served = NoRequest
  /\ download = [NoDownload EXCEPT !.body = "requested", !.promise = "pending"]

\* await fetch(url) settles: it throws, or the status is not ok and the
\* function throws, or the promise is created with its two streams
downloadToFile_fetched ==
  /\ download.body = "requested"
  /\ \/ download' = [download EXCEPT !.body = "failed", !.promise = "rejected"]
     \/ \E n \in 0..MaxChunks :
          download' = [download EXCEPT !.total = n, !.body = "flowing",
                                       !.file = "open"]
  /\ UNCHANGED <<pipeVars, capVars, textVars, pickVars, oauthVars, served>>

\* 'data' of the body: pipe hands the chunk to file.write
body_data ==
  /\ ~download.died
  /\ download.body = "flowing" /\ download.file = "open"
  /\ download.received < download.total
  /\ download' = [download EXCEPT !.received = @ + 1]
  /\ UNCHANGED <<pipeVars, capVars, textVars, pickVars, oauthVars, served>>

\* the write stream puts a buffered chunk on disk
file_write ==
  /\ ~download.died
  /\ download.file = "open"
  /\ download.written < download.received
  /\ download' = [download EXCEPT !.written = @ + 1]
  /\ UNCHANGED <<pipeVars, capVars, textVars, pickVars, oauthVars, served>>

\* 'end' of the body: pipe calls file.end()
body_end ==
  /\ ~download.died
  /\ download.body = "flowing" /\ download.file = "open"
  /\ download.received = download.total
  /\ download' = [download EXCEPT !.body = "ended"]
  /\ UNCHANGED <<pipeVars, capVars, textVars, pickVars, oauthVars, served>>

\* 'finish' of the file, once everything written before end() is on disk:
\* file.on("finish", resolve)
file_finish ==
  /\ ~download.died
  /\ download.body = "ended" /\ download.file = "open"
  /\ download.written = download.received
  /\ download' = [download EXCEPT !.file = "finished",
                                  !.promise = IF @ = "pending" THEN "resolved" ELSE @]
  /\ UNCHANGED <<pipeVars, capVars, textVars, pickVars, oauthVars, served>>

\* 'error' of the body: res.body.on("error", reject); pipe does not end the
\* file, which stays open
body_error ==
  /\ ~download.died
  /\ download.body = "flowing"
  /\ download' = [download EXCEPT !.body = "errored",
                                  !.promise = IF @ = "pending" THEN "rejected" ELSE @]
  /\ UNCHANGED <<pipeVars, capVars, textVars, pickVars, oauthVars, served>>

\* 'error' of the file (the open or a write fails): the only listener is
\* the one pipe installed, which unpipes and emits the error again; nobody
\* else listens, so it is thrown as an uncaught exception
file_error ==
  /\ ~download.died
  /\ download.file = "open"
  /\ download' = [download EXCEPT !.file = "errored", !.died = TRUE]
  /\ UNCHANGED <<pipeVars, capVars, textVars, pickVars, oauthVars, served>>

DownloadNext ==
  \/ downloadToFile_fetched
  \/ body_data
  \/ file_write
  \/ body_end
  \/ file_finish
  \/ body_error
  \/ file_error

SpecDownload == DownloadInit /\ [][DownloadNext]_vars

(***************************************************************************)
(*                              Properties                                 *)
(***************************************************************************)
Finished(r) == pc[r] = "done"
Active(r) == pc[r] \notin {"idle", "done"}
Contains(message, piece) == \E i \in DOMAIN message : message[i] = piece

\* C1: once a run has finished, with any outcome, none of the temporary
\* files the run wrote is still on disk.
C1_NoTempFilesLeft ==
  \A r \in Runs : Finished(r) => created[r] \cap DOMAIN files = {}

\* C2: two pipeline executions that overlap in time use disjoint sets of
\* temporary file paths.
C2_DisjointPaths ==
  \A r1, r2 \in Runs :
    (r1 # r2 /\ Active(r1) /\ Active(r2)) => paths[r1] \cap paths[r2] = {}

\* C3: the video a run uploads was encoded from the narration and the
\* visual generated for that run's own riddle.
C3_UploadsOwnRiddle ==
  \A u \in uploads :
    /\ u.video.visual = riddle[u.run]
    /\ u.video.audio \in {0, riddle[u.run]}

\* C4: when the encoder exits with a non-zero code, /make answers 500 with
\* an error field that contains what the encoder wrote to stderr.
C4_EncoderDiagnosticInError ==
  \A r \in Runs :
    (trigger[r] = "make" /\ Finished(r) /\ failed[r] = "encode" /\ encErr[r] # "")
      => /\ resp[r].status = 500
         /\ "error" \in DOMAIN resp[r].body
         /\ Contains(resp[r].body.error, encErr[r])

\* C5: when every stage succeeds, /make answers 200 with the question of
\* the riddle selected in this request and the id the uploader returned in
\* this request.
C5_SuccessBody ==
  \A r \in Runs :
    (trigger[r] = "make" /\ Finished(r) /\ failed[r] = "none" /\ upId[r] # "")
      => /\ resp[r].status = 200
         /\ {"question", "videoId"} \subseteq DOMAIN resp[r].body
         /\ resp[r].body.question = <<RiddleList[riddle[r]].question>>
         /\ resp[r].body.videoId = <<upId[r]>>

\* the length of the run of backslashes that ends at position i of o
RECURSIVE BackslashRun(_, _)
BackslashRun(o, i) ==
  IF i >= 1 /\ o[i] = BS THEN 1 + BackslashRun(o, i - 1) ELSE 0

\* every quote, colon and comma of o follows a backslash, and no backslash
\* stands alone in front of an ordinary character or at the end
EscapedIn(o) ==
  \A i \in DOMAIN o :
    /\ o[i] \in {SQ, COLON, COMMA} => (i > 1 /\ o[i - 1] = BS)
    /\ (o[i] = BS /\ (i = Len(o) \/ o[i + 1] \notin {BS, SQ, COLON, COMMA}))
         => BackslashRun(o, i) % 2 = 0

\* C6: every helper that puts riddle text into a drawtext filter escapes
\* every single quote, colon, backslash and comma of the text.
C6_AllSpecialsEscaped ==
  applied => EscapedIn(out)

\* the reading of one escaping level: a backslash makes the next character
\* literal; a backslash at the very end stands for itself
RECURSIVE Unescape(_)
Unescape(o) ==
  IF o = << >> THEN << >>
  ELSE IF Head(o) = BS /\ Len(o) >= 2
       THEN <<o[2]>> \o Unescape(SubSeq(o, 3, Len(o)))
       ELSE <<Head(o)>> \o Unescape(Tail(o))

\* C7: the escaped form of escText, dt and drawText, read back by the
\* unescaping rules (through one level or through two), is the original
\* text.
C7_EscapeRoundTrip ==
  (applied /\ helper \in {"escText", "dt", "drawText"})
    => (Unescape(out) = text \/ Unescape(Unescape(out)) = text)

\* C8: no line produced by wrapText or by the wrap loop of generateImage
\* is longer than the maximum, whatever the words are.
C8_LinesWithinMax ==
  applied => \A i \in DOMAIN out : measureText(out[i]) <= limit

\* C9: when the speech download, the encoder or the upload of a /make
\* request fails, the caller gets a 500 response with an error message.
C9_FailureAnswered500 ==
  \A r \in Runs :
    (/\ trigger[r] = "make"
     /\ failed[r] \in {"tts", "encode", "upload"}
     /\ (Finished(r) \/ crashed))
      => /\ resp[r].status = 500
         /\ "error" \in DOMAIN resp[r].body
         /\ resp[r].body.error # << >>

\* the stages whose output the encoder of a variant reads
EncoderInputs ==
  CASE variant = "part_004" -> {"voice", "image"}
    [] variant = "server.js" -> {"image"}
    [] OTHER -> {"voice"}

\* C10: within one run at most one stage is in progress; the encoder runs
\* only after the narration and the visual input are complete, and the
\* upload starts only after the encoder has exited successfully.
C10_StagesSequential ==
  \A r \in Runs :
    /\ Cardinality(ext[r]) <= 1
    /\ ("encode" \in ext[r] \cup completed[r]) => EncoderInputs \subseteq completed[r]
    /\ "upload" \in ext[r] => "encode" \in completed[r]

\* C10 witness: a run of createAndUpload is uploading, its voice, image and
\* encoder stages having finished
C10_Witness ==
  \E r \in Runs :
    /\ variant = "part_004"
    /\ ext[r] = {"upload"}
    /\ completed[r] = {"voice", "image", "encode"}

\* C11: once a stage of a run has failed, the run has no external call in
\* progress and starts none: the failed stage is not tried again, no later
\* stage runs and nothing is uploaded for the run.
C11_NoCallAfterFailure ==
  [][\A r \in Runs :
       /\ failed'[r] # "none" => ext'[r] = {}
       /\ failed[r] # "none" =>
            /\ completed'[r] = completed[r]
            /\ \A u \in uploads' \ uploads : u.run # r]_vars

\* C11 witness: the first download of buildVoiceTrack failed; the run ended
\* without the second download, the encoder or the upload
C11_Witness ==
  \E r \in Runs :
    /\ variant = "part_003" /\ failed[r] = "tts" /\ Finished(r)
    /\ created[r] = {} /\ ext[r] = {} /\ upId[r] = ""

\* the server takes a new request for run q
Accept(q) ==
  \/ createAndUpload_start(q) \/ handleRequest_start(q)
  \/ server_make_start(q) \/ part2_make_start(q) \/ part3_make_start(q)
  \/ part3b_make_start(q) \/ createAndUpload2_start(q)

\* the event loop runs the callback that run q is waiting for
Resume(q) ==
  \/ createAndUpload_voiceDone(q) \/ createAndUpload_imageDone(q)
  \/ createAndUpload_encoderExit(q) \/ createAndUpload_uploadDone(q)
  \/ handleRequest_speechDone(q) \/ handleRequest_encoderExit(q)
  \/ handleRequest_uploadDone(q)
  \/ server_make_imageDone(q) \/ server_make_encoderEnd(q)
  \/ server_make_uploadDone(q)
  \/ part2_make_downloadDone(q) \/ part2_make_close(q)
  \/ part3_make_questionDone(q) \/ part3_make_answerDone(q)
  \/ part3_make_mixExit(q) \/ part3_make_encoderExit(q)
  \/ part3_make_uploadDone(q)
  \/ part3b_make_downloadDone(q) \/ part3b_make_close(q)
  \/ part3b_make_streamClose(q)
  \/ createAndUpload2_voiceDone(q) \/ createAndUpload2_encoderExit(q)
  \/ createAndUpload2_uploadDone(q)

\* C12: while a run waits for its encoder subprocess, the server can take
\* the next request, and every other run in progress can take its next step.
C12_EncoderBlocksOnlyItsRun ==
  \A r \in Runs :
    ("encode" \in ext[r] /\ ~crashed) =>
      \A q \in Runs \ {r} :
        /\ (pc[q] = "idle" /\ \A p \in Runs : p < q => pc[p] # "idle")
             => ENABLED Accept(q)
        /\ Active(q) => ENABLED Resume(q)

\* C13: a callback request without a code is answered 400, no token
\* exchange is made for it, and the step that answers it leaves the
\* process-wide credentials as they were.
C13_MissingCodeRefused ==
  /\ [](\A k \in Callbacks :
         (callback[k].pc # "idle" /\ callback[k].code = "") =>
           /\ callback[k].pc = "done" /\ callback[k].status = 400
           /\ \A i \in DOMAIN exchanges : exchanges[i].callback # k)
  /\ [][\A k \in Callbacks :
          (callback[k].pc = "idle" /\ callback'[k].pc # "idle" /\ callback'[k].code = "")
            => (credentials' = credentials /\ exchanges' = exchanges)]_vars

\* C13 witness: a request without a code was refused while the exchange of
\* an earlier request was still in flight
C13_Witness ==
  \E k, j \in Callbacks :
    /\ callback[k].code = "" /\ callback[k].status = 400
    /\ callback[j].pc = "token"

\* C14: every upload the platform accepted, from a request or from the
\* schedule, was issued with privacy status 'private'.
C14_UploadsPrivate ==
  \A u \in uploads : u.privacy = "private"

\* C14 witness: a scheduled run and a requested run have both uploaded
C14_Witness ==
  \E u1, u2 \in uploads :
    /\ trigger[u1.run] = "cron" /\ trigger[u2.run] = "make"
    /\ u1.privacy = "private" /\ u2.privacy = "private"

\* the servers that schedule runs with cron
CronVariants == {"index.js", "part_004", "part_004b"}

\* the stages of a run, in the order the generation logic runs them
StageSequence ==
  IF variant = "part_004" THEN <<"voice", "image", "encode">>
  ELSE <<"voice", "encode">>

\* the sets of stages a run can have completed, going through them in order
StagePrefixes == {{StageSequence[i] : i \in 1..n} : n \in 0..Len(StageSequence)}

\* C15: a scheduled run goes through the stages in the same order as a
\* requested run and its successful end removes the same files; when a
\* scheduled run fails the failure is caught: the run settles, the process
\* lives, the event loop is free of the run and the next run can start.
C15_CronSameLogicAndCaught ==
  /\ [](variant \in CronVariants =>
         \A r \in Runs :
           /\ completed[r] \in StagePrefixes
           /\ (trigger[r] = "cron" /\ failed[r] # "none") =>
                /\ ~crashed /\ Finished(r) /\ loop # r
                /\ resp[r] = NoResponse
                /\ \A q \in Runs :
                     (loop = 0 /\ pc[q] = "idle"
                        /\ \A p \in Runs : p < q => pc[p] # "idle")
                       => ENABLED Accept(q))
  /\ [][(variant \in CronVariants) =>
          \A r \in Runs :
            (pc[r] = "upload" /\ pc'[r] = "done" /\ failed'[r] = "none")
              => paths[r] \cap DOMAIN files' = {}]_vars

\* C15 witness: a scheduled run failed in its encoder and a later run,
\* scheduled as well, has gone through every stage and uploaded
C15_Witness ==
  \E r, q \in Runs :
    /\ r < q /\ trigger[r] = "cron" /\ failed[r] = "encode"
    /\ trigger[q] = "cron" /\ Finished(q) /\ upId[q] # ""

\* the assets the encoder of a variant cannot do without: its background
\* (unless the variant falls back to a plain colour) and its font file
RequiredAssets ==
  CASE variant \in {"index.js", "part_002", "part_003b"} -> {"background", "font"}
    [] variant \in {"part_003", "part_004b"} -> {"font"}
    [] OTHER -> {}

\* C16: when an asset the variant needs is absent, no run starts the
\* encoder, and every /make request ends in a 500 with an error message.
C16_MissingAssetRefused ==
  ~(RequiredAssets \subseteq assets) =>
    \A r \in Runs :
      /\ "encode" \notin ext[r]
      /\ (trigger[r] = "make" /\ Finished(r)) =>
           /\ resp[r].status = 500
           /\ "error" \in DOMAIN resp[r].body
           /\ resp[r].body.error # << >>

\* C17: on a non-empty list the selector's index is an integer of
\* 0..N-1, so the selected element exists and belongs to the list.
C17_SelectorInRange ==
  (index # -1 /\ count > 0) => index \in 0..(count - 1)

\* C17 witness: the selector has returned the last element of a list of
\* several riddles
C17_Witness ==
  count > 1 /\ index = count - 1

\* C18: with an empty riddle list no run makes a speech, encoder or upload
\* call or writes a file, and every /make request gets a 500 with an
\* error message.
C18_EmptyListRefused ==
  (riddles = << >> /\ variant \in ListVariants) =>
    /\ DOMAIN files = {} /\ uploads = {}
    /\ \A r \in Runs :
         /\ ext[r] = {} /\ created[r] = {} /\ completed[r] = {}
         /\ (trigger[r] = "make" /\ pc[r] # "idle") =>
              /\ Finished(r) /\ resp[r].status = 500
              /\ "error" \in DOMAIN resp[r].body
              /\ resp[r].body.error # << >>

\* C18 witness: a /make request and a scheduled run have both met the
\* empty list
C18_Witness ==
  /\ riddles = << >>
  /\ \E r, q \in Runs :
       /\ trigger[r] = "make" /\ failed[r] = "riddle" /\ resp[r].status = 500
       /\ trigger[q] = "cron" /\ failed[q] = "riddle"

\* C19: once the upload of a /make request has succeeded, the request is
\* answered 200 with the id the uploader returned, whatever happens to the
\* deletion of the temporary files.
C19_CleanupBestEffort ==
  \A r \in Runs :
    (trigger[r] = "make" /\ Finished(r) /\ upId[r] # "") =>
      /\ resp[r].status = 200
      /\ "videoId" \in DOMAIN resp[r].body
      /\ resp[r].body.videoId = <<upId[r]>>

\* C20: when a run of handleRequest (index.js) has settled, the narration
\* file that generateSpeech wrote for it is no longer on disk, whichever
\* way the run ended.
C20_NarrationDeleted ==
  variant = "index.js" =>
    \A r \in Runs :
      Finished(r) =>
        \A p \in created[r] : p.name = "speech" => ~Exists(files, p)

\* the servers whose temporary files have fixed names
FixedPathVariants == {"server.js", "part_004", "part_004b"}

\* C21: in the fixed-path servers, a run that starts when every other run
\* has finished, one of them having failed and left a file behind, uploads
\* a video made of its own riddle only: the leftover is overwritten before
\* it is read.
C21_LeftoverNotRead ==
  \A r \in Runs :
    []((/\ variant \in FixedPathVariants
        /\ pc[r] = "idle"
        /\ \A q \in Runs \ {r} : Finished(q)
        /\ \E q \in Runs \ {r} :
             failed[q] # "none" /\ created[q] \cap DOMAIN files # {})
         => [](\A u \in uploads :
                u.run = r => /\ u.video.visual = riddle[r]
                             /\ u.video.audio \in {0, riddle[r]}))

\* C21 witness: a run failed in its upload, leaving voice.mp3, temp.png and
\* output.mp4 of its riddle; a later run of another riddle has uploaded a
\* video of its own and removed the three files
C21_Witness ==
  \E q, r \in Runs :
    /\ variant = "part_004" /\ q < r
    /\ failed[q] = "upload" /\ riddle[q] # riddle[r]
    /\ Finished(r) /\ DOMAIN files = {}
    /\ \E u \in uploads : u.run = r /\ u.video = Video(riddle[r], riddle[r])

\* C22: a /make request is answered exactly once: a response that was sent
\* is never replaced by another, and a request whose handler has nothing
\* left to wait for (every external call of it has settled, the encoder
\* that could not be started included) has its response.
C22_AnsweredExactlyOnce ==
  /\ [](\A r \in Runs :
         (/\ trigger[r] = "make" /\ pc[r] # "idle"
          /\ loop = 0 /\ ~ENABLED Resume(r))
           => resp[r] # NoResponse)
  /\ [][\A r \in Runs : resp[r] # NoResponse => resp'[r] = resp[r]]_vars

\* C23: on every frame at most one countdown caption is drawn, the window
\* ends being inclusive.
C23_OneCountdownAtATime ==
  Cardinality({c \in shown : c.kind = "countdown"}) <= 1

\* the second at which the last countdown window ends
CountdownEnd ==
  CHOOSE e \in {c.end : c \in Captions} :
    /\ \E c \in Captions : c.kind = "countdown" /\ c.end = e
    /\ \A c \in Captions : c.kind = "countdown" => c.end <= e

\* C24: on a frame that shows the answer caption no countdown caption is
\* drawn and the last countdown window has ended.
C24_AnswerAfterCountdown ==
  (\E a \in shown : a.kind = "answer") =>
    /\ \A c \in shown : c.kind # "countdown"
    /\ frame > CountdownEnd * FrameRate

\* C25: no frame shows two captions drawn at the same position.
C25_OneCaptionPerPosition ==
  \A c1, c2 \in shown : (c1.x = c2.x /\ c1.y = c2.y) => c1 = c2

\* the servers that have the callback route and upload videos
UploadVariants == {"index.js", "server.js", "part_004", "part_004b"}

\* C26: in a server that uploads, the step that ends a callback with
\* success leaves the exchanged tokens as the credentials of the process-wide
\* client, which every upload reads, and nothing else changes them.
C26_ExchangedTokensInstalled ==
  [][(variant \in UploadVariants) =>
       /\ \A k \in Callbacks :
            (callback[k].pc = "token" /\ callback'[k].status = 200)
              => credentials' = callback'[k].tokens
       /\ credentials' # credentials =>
            \E k \in Callbacks :
              callback[k].pc = "token" /\ callback'[k].status = 200]_vars

\* p lies inside the directory dir
Inside(dir, p) == Len(p) > Len(dir) /\ SubSeq(p, 1, Len(dir)) = dir

\* C27: whatever the name parameter is, a file that /file/:name reads and
\* sends lies inside tmp, and a name with no existing file is answered 404.
C27_ServesOnlyTmp ==
  /\ served.status = 200 => Inside(TMP, served.path)
  /\ (served.status # 0 /\ ~existsSync(served.path)) => served.status = 404

\* C28: the promise of downloadToFile is resolved only when the file is
\* finished with every chunk of the body on disk, and it is rejected once
\* the body or the file has failed.
C28_DownloadSettles ==
  /\ download.promise = "resolved" =>
       /\ download.file = "finished"
       /\ download.written = download.total
  /\ download.body = "errored" => download.promise = "rejected"
  /\ download.file = "errored" => download.promise = "rejected"

\* lines.join(' ')
RECURSIVE JoinWithSpace(_)
JoinWithSpace(ls) ==
  IF ls = << >> THEN << >>
  ELSE IF Len(ls) = 1 THEN Head(ls)
  ELSE Head(ls) \o <<SPACE>> \o JoinWithSpace(Tail(ls))

\* the words of a text: its maximal runs of characters other than spaces
NonEmpty(w) == w # << >>
WordsOf(t) == SelectSeq(SplitOnSpaces(t, << >>), NonEmpty)

\* C29: for every text and every maxChars >= 1, wrapText returns no empty
\* line, and its lines joined by single spaces are the words of the text,
\* in their order, joined by single spaces.
C29_WrapKeepsWords ==
  (applied /\ helper = "wrapText" /\ limit >= 1) =>
    /\ \A i \in DOMAIN out : out[i] # << >>
    /\ JoinWithSpace(out) = JoinWithSpace(WordsOf(text))

=============================================================================
